---- MODULE Spec2Model ----
(***************************************************************************)
(* Transient monitor: the ingestion run (check_for_new_transients) of      *)
(* src/transient_monitor.py over the detection feed (transients.txt), the  *)
(* processed ledger (new_transients.csv) and the last-check watermark      *)
(* (last_check.txt).                                                       *)
(*                                                                         *)
(* A feed row keeps the columns the selection reads: source, observation,  *)
(* status and time (in whole days).  The other columns are payload that    *)
(* is copied and never tested.  A run is sequential code with no           *)
(* observer in between, so each run is one step; a run that raises part   *)
(* way is a step of its own that ends in the state the exception leaves.  *)
(*                                                                         *)
(* The vote tally (src/voting_system/vote_tracker.py) over vote_counts.csv *)
(* and classifications.csv has specifications of its own: TallySpec for    *)
(* calls made one after the other, RaceSpec for two reaction handlers that *)
(* run at once.  classify_transient and process_transient_coordinates are  *)
(* pure functions, applied to drawn inputs in ClassifySpec and CoordSpec.  *)
(* ReadSpec has the read operations of the tally, ExtractedSpec the calls *)
(* for the identifiers a message can give, HandlerSpec the reaction events *)
(* as the handler treats them, and WiringSpec the threads of the program   *)
(* and what each of them runs.                                             *)
(***************************************************************************)
EXTENDS Naturals, Integers, Sequences, FiniteSets

VARIABLES feed, feedState, ledger, lastCheck, now, lastRun, streak, streakBase,
          bootMarked

\* vote_counts.csv and classifications.csv (each: whether the file exists,
\* and its rows), the last update_vote_counts call, and the reaction
\* handlers in flight.
VARIABLES votesExists, votesRows, classExists, classRows, lastCall, handlers,
          lastWriter

\* The argument and the result of classify_transient, with the confidence
\* computed beside it, and of process_transient_coordinates.
VARIABLES classifyIn, classifyOut, confidenceOut, coordIn, coordOut

\* The last read operation on the tally and the last reaction event, with
\* their results; where the main thread and the thread of the Slack app
\* are, which threads are inside check_for_new_transients, whether the
\* daily job is due, and how many checks have finished.
VARIABLES lastRead, lastEvent, mainPc, boltPc, inCheck, jobDue, checksDone

ingestVars == <<feed, feedState, ledger, lastCheck, now, lastRun, streak,
                streakBase, bootMarked>>

tallyVars == <<votesExists, votesRows, classExists, classRows, lastCall, handlers,
               lastWriter>>

pureVars == <<classifyIn, classifyOut, confidenceOut, coordIn, coordOut>>

appVars == <<lastRead, lastEvent, mainPc, boltPc, inCheck, jobDue, checksDone>>

vars == <<ingestVars, tallyVars, pureVars, appVars>>

-----------------------------------------------------------------------------
(* Bounds of the model. *)

\* Longest feed.
MaxFeed == 6

\* Feeds up to this length draw every row from all row classes; longer ones
\* from the backlog classes only.
ShortLen == 3

\* How many leading feed rows an earlier program run may already have put
\* into the ledger.
MaxPre == 1

\* Days the clock may advance during a behaviour.
MaxTicks == 1

\* Longest sequence of consecutive completed runs that is recorded.
MaxRuns == 3

\* Most votes, over the four reactions together, that one message carries
\* when its reactions are counted.
MaxVotes == 2

\* Most votes one category holds when classify_transient is applied to
\* drawn vote counts.
MaxCount == 3

-----------------------------------------------------------------------------
(* Program constants. *)

\* transients_to_post = final_new_transients.head(5)
BatchSize == 5

\* recent_threshold = now - pd.Timedelta(days=30)
RecentDays == 30

\* pandas' missing value, the status of a row whose status cell is empty.
NA == "NaN"

-----------------------------------------------------------------------------
(* Values. *)

\* The clock when the program starts.
Start == RecentDays + 1

\* A time exactly RecentDays before Start (not recent), and one a day later
\* (recent at Start, no longer recent a day after).
OldTime == Start - RecentDays
RecentTime == OldTime + 1

\* Watermark file absent.
NoCheck == 0

Min(a, b) == IF a < b THEN a ELSE b

DigitStr == <<"0", "1", "2", "3", "4", "5", "6", "7", "8", "9">>

\* str() of a non-negative integer, as astype(str) renders an int column.
RECURSIVE ToStr(_)
ToStr(n) == IF n < 10 THEN DigitStr[n + 1]
            ELSE ToStr(n \div 10) \o DigitStr[(n % 10) + 1]

\* The rows of data selected by a boolean mask, in data's order:
\* data[mask] of a DataFrame.
RECURSIVE SelectRows(_, _)
SelectRows(data, mask) ==
    IF Len(data) = 0 THEN <<>>
    ELSE LET rest == SelectRows(SubSeq(data, 1, Len(data) - 1),
                                [i \in 1..(Len(data) - 1) |-> mask[i]])
         IN IF mask[Len(data)] THEN Append(rest, data[Len(data)]) ELSE rest

-----------------------------------------------------------------------------
(* The feed and the ledger a program start can find. *)

\* Every row class of a short feed: status "new", missing or another value,
\* with an old or a recent time.
AllClasses ==
    {[status |-> "new", time |-> OldTime], [status |-> "new", time |-> RecentTime],
     [status |-> NA, time |-> OldTime], [status |-> NA, time |-> RecentTime],
     [status |-> "processed", time |-> RecentTime]}

\* The row classes of a long feed: the historical backlog (status "new", old)
\* and fresh detections (no status, recent).
BacklogClasses ==
    {[status |-> "new", time |-> OldTime], [status |-> NA, time |-> RecentTime]}

ClassesOf(n) == IF n <= ShortLen THEN AllClasses ELSE BacklogClasses

\* The i-th feed row: the (source, observation) pair is its identity, so no
\* two rows of a feed share it.
SourceAt(i) == IF i % 2 = 1 THEN "J0101" ELSE "J0202"

FeedRow(i, c) ==
    [source |-> SourceAt(i), observation |-> i, status |-> c.status, time |-> c.time]

\* Feed lengths: the short feeds, and the feeds longer than one batch.
FeedLengths == (0..ShortLen) \cup ((BatchSize + 1)..MaxFeed)

Feeds ==
    UNION {{[i \in 1..n |-> FeedRow(i, cs[i])] : cs \in [1..n -> ClassesOf(n)]} :
           n \in FeedLengths}

\* A ledger row of a detection that has since left the feed.
ForeignRow ==
    [source |-> "J0303", observation |-> 1, status |-> NA, time |-> OldTime,
     processed_at |-> Start - 1]

\* The ledger row save_new_transients writes for a feed row at time t:
\* the saved columns plus processed_at.
Stamp(row, t) ==
    [source |-> row.source, observation |-> row.observation,
     status |-> row.status, time |-> row.time, processed_at |-> t]

Stamped(rows, t) == [i \in 1..Len(rows) |-> Stamp(rows[i], t)]

\* A ledger left by earlier runs: none, the foreign row alone, or the first
\* k feed rows, latest first.
PriorLedgers(data) ==
    {<<>>, <<ForeignRow>>} \cup
    {[i \in 1..k |-> Stamp(data[k + 1 - i], Start - 1)] :
        k \in 1..Min(MaxPre, Len(data))}

-----------------------------------------------------------------------------
(* check_for_new_transients: the selection. *)

\* unique_id = source.astype(str) + '_' + observation.astype(str)
UniqueId(row) == row.source \o "_" \o ToStr(row.observation)

UniqueIds(rows) == {UniqueId(rows[i]) : i \in 1..Len(rows)}

\* A mask that forgets the ledger.
UnprocessedMaskAll(data, processed) == [i \in 1..Len(data) |-> TRUE]

\* unprocessed_mask: rows whose unique_id is not in the ledger; every row
\* when the ledger is empty.
UnprocessedMask(data, processed) ==
    IF Len(processed) > 0
    THEN LET ids == UniqueIds(processed)
         IN [i \in 1..Len(data) |-> UniqueId(data[i]) \notin ids]
    ELSE [i \in 1..Len(data) |-> TRUE]

\* A status filter that lets every status through.
StatusFilterAny(data) == [i \in 1..Len(data) |-> TRUE]

\* status_filter = (status == 'new') | status.isna()
StatusFilter(data) ==
    [i \in 1..Len(data) |-> data[i].status = "new" \/ data[i].status = NA]

\* A first-run filter that also takes status 'new'.
RecentFilterWithNew(data, t) ==
    [i \in 1..Len(data) |->
        (data[i].status = NA \/ data[i].status = "new")
        /\ data[i].time + RecentDays > t]

\* recent_filter = status.isna() & (time > now - 30 days)
RecentFilter(data, t) ==
    [i \in 1..Len(data) |-> data[i].status = NA /\ data[i].time + RecentDays > t]

\* A selection that applies the recency test in steady state too.
FinalNewTransientsRecentOnly(data, processed, t) ==
    IF Len(processed) > 0
    THEN LET unprocessed_mask == UnprocessedMask(data, processed)
             status_filter == StatusFilter(data)
         IN SelectRows(data, [i \in 1..Len(data) |->
                                 unprocessed_mask[i] /\ status_filter[i]
                                 /\ data[i].time + RecentDays > t])
    ELSE SelectRows(data, RecentFilter(data, t))

\* A selection that remembers what the run before it announced and leaves
\* those rows out.
FinalNewTransientsSkippingAnnounced(data, processed, t) ==
    LET announced == UniqueIds(lastRun.announced)
    IN IF Len(processed) > 0
       THEN LET unprocessed_mask == UnprocessedMask(data, processed)
                status_filter == StatusFilter(data)
            IN SelectRows(data, [i \in 1..Len(data) |->
                                    /\ unprocessed_mask[i]
                                    /\ status_filter[i]
                                    /\ UniqueId(data[i]) \notin announced])
       ELSE LET recent_filter == RecentFilter(data, t)
            IN SelectRows(data, [i \in 1..Len(data) |->
                                    /\ recent_filter[i]
                                    /\ UniqueId(data[i]) \notin announced])

\* final_new_transients
FinalNewTransients(data, processed, t) ==
    IF Len(processed) > 0
    THEN LET unprocessed_mask == UnprocessedMask(data, processed)
             status_filter == StatusFilter(data)
         IN SelectRows(data, [i \in 1..Len(data) |->
                                 unprocessed_mask[i] /\ status_filter[i]])
    ELSE SelectRows(data, RecentFilter(data, t))

\* A batch taken from the end of the candidates.
TransientsToPostTail(final) ==
    SubSeq(final, Len(final) + 1 - Min(BatchSize, Len(final)), Len(final))

\* transients_to_post = final_new_transients.head(5)
TransientsToPost(final) == SubSeq(final, 1, Min(BatchSize, Len(final)))

\* A first-run handling that marks nothing.
HistoricalNewNone(data) == <<>>

\* historical_new = data_transients[data_transients['status'] == 'new']
HistoricalNew(data) ==
    SelectRows(data, [i \in 1..Len(data) |-> data[i].status = "new"])

\* A save that keeps the ledger as it was.
SaveNewTransientsDropped(new_transients_df, processed_df, t) == processed_df

\* save_new_transients: the content of new_transients.csv after the call.
SaveNewTransients(new_transients_df, processed_df, t) ==
    IF Len(processed_df) > 0
    THEN processed_df \o Stamped(new_transients_df, t)
    ELSE Stamped(new_transients_df, t)

\* The ledger after the announcing branch's save of the batch (line 454);
\* a run with no candidate writes nothing there.
LedgerAfterBatch(data, processed, t) ==
    LET final == FinalNewTransients(data, processed, t)
    IN IF Len(final) > 0
       THEN SaveNewTransients(TransientsToPost(final), processed, t)
       ELSE processed

\* The ledger when the run returns: on a first run with historical rows the
\* file is written once more, from the historical rows and an empty frame
\* (lines 457-461 and 467-471).
LedgerAfterRun(data, processed, t) ==
    IF Len(processed) = 0 /\ Len(HistoricalNew(data)) > 0
    THEN SaveNewTransients(HistoricalNew(data), <<>>, t)
    ELSE LedgerAfterBatch(data, processed, t)

-----------------------------------------------------------------------------
(* The vote tally and the pure functions at rest: the values their        *)
(* variables hold in a specification that is about something else.        *)

\* No update_vote_counts call has been made yet.
NoCall == [transient_id |-> "", reaction_counts |-> <<>>, outcome |-> "none"]

\* The two reaction handlers the RaceSpec runs side by side.
Handlers == {1, 2}

\* A handler that has not received its reaction event.
IdleHandler ==
    [pc |-> "idle", transient_id |-> "", reaction_counts |-> <<>>,
     votes_df |-> <<>>, votes_reread |-> <<>>, class_df |-> <<>>]

\* Both files absent, no call made, no handler running.
TallyIdle ==
    /\ votesExists = FALSE
    /\ votesRows = <<>>
    /\ classExists = FALSE
    /\ classRows = <<>>
    /\ lastCall = NoCall
    /\ handlers = [h \in Handlers |-> IdleHandler]
    /\ lastWriter = 0

\* No pure function has been given an argument.
PureIdle ==
    /\ classifyIn = <<>>
    /\ classifyOut = ""
    /\ confidenceOut = <<>>
    /\ coordIn = <<>>
    /\ coordOut = <<>>

\* No read operation has been called.
NoRead == [op |-> "none", transient_id |-> "", n |-> 0, result |-> <<>>]

\* No reaction event has been delivered.
NoEvent ==
    [reaction |-> "", channel |-> "", ts |-> "", message |-> "",
     fetched |-> "", outcome |-> "none"]

\* No read, no event, and the program not started.
AppIdle ==
    /\ lastRead = NoRead
    /\ lastEvent = NoEvent
    /\ mainPc = "not_started"
    /\ boltPc = "not_started"
    /\ inCheck = {}
    /\ jobDue = FALSE
    /\ checksDone = 0

-----------------------------------------------------------------------------
(* State. *)

NoRun ==
    [mode |-> "none", outcome |-> "none", at |-> NoCheck, ledgerBefore |-> <<>>,
     checkBefore |-> NoCheck, candidates |-> <<>>, batch |-> <<>>,
     announced |-> <<>>, rerun |-> FALSE, batchBefore |-> <<>>]

\* The run before this one selected from the same feed, the same ledger
\* and at the same time: its ledger append, if any, was not persisted.
Rerun(t) ==
    /\ lastRun.mode # "none"
    /\ lastRun.at = t
    /\ lastRun.ledgerBefore = ledger

\* What a run that starts at time t sees and selects; for a rerun, the
\* batch the run before it selected.
RunRecord(t, outcome, final, announced) ==
    [mode |-> IF Len(ledger) > 0 THEN "steady" ELSE "bootstrap",
     outcome |-> outcome, at |-> t, ledgerBefore |-> ledger,
     checkBefore |-> lastCheck, candidates |-> final,
     batch |-> TransientsToPost(final), announced |-> announced,
     rerun |-> Rerun(t),
     batchBefore |-> IF Rerun(t) THEN lastRun.batch ELSE <<>>]

Init ==
    /\ \/ feedState = "ok" /\ feed \in Feeds
       \/ feedState \in {"missing", "malformed"} /\ feed = <<>>
    /\ ledger \in PriorLedgers(feed)
    /\ lastCheck = IF Len(ledger) = 0 THEN NoCheck ELSE Start - 1
    /\ now = Start
    /\ lastRun = NoRun
    /\ streak = <<>>
    /\ streakBase = ledger
    /\ bootMarked = {}
    /\ TallyIdle
    /\ PureIdle
    /\ AppIdle

\* The times at which the next run may start: at once or a day later.
RunTimes == {now} \cup (IF now < Start + MaxTicks THEN {now + 1} ELSE {})

-----------------------------------------------------------------------------
(* check_for_new_transients, one action per way the run can end. *)

\* A run on an unreadable feed that still stamps the watermark.
CheckFeedUnreadableStamps ==
    /\ feedState # "ok"
    /\ lastCheck' = now
    /\ lastRun' = [NoRun EXCEPT !.outcome = "feed_" \o feedState, !.at = now,
                                !.ledgerBefore = ledger, !.checkBefore = lastCheck]
    /\ streak' = <<>>
    /\ streakBase' = ledger
    /\ UNCHANGED <<feed, feedState, ledger, now, bootMarked>>
    /\ UNCHANGED <<tallyVars, pureVars, appVars>>

\* The feed file is missing (the early return) or pd.read_csv raises on it:
\* the run ends before the ledger is even loaded.
CheckFeedUnreadable ==
    /\ feedState # "ok"
    /\ lastRun' = [NoRun EXCEPT !.outcome = "feed_" \o feedState, !.at = now,
                                !.ledgerBefore = ledger, !.checkBefore = lastCheck]
    /\ streak' = <<>>
    /\ streakBase' = ledger
    /\ UNCHANGED <<feed, feedState, ledger, lastCheck, now, bootMarked>>
    /\ UNCHANGED <<tallyVars, pureVars, appVars>>

\* The run goes through: every batch row is posted, the ledger is saved and
\* the watermark is stamped.
CheckCompletes(t) ==
    /\ feedState = "ok"
    /\ Len(streak) < MaxRuns
    /\ LET final == FinalNewTransients(feed, ledger, t)
       IN /\ lastRun' = RunRecord(t, "completed", final, TransientsToPost(final))
          /\ streak' = Append(streak, TransientsToPost(final))
    /\ ledger' = LedgerAfterRun(feed, ledger, t)
    /\ lastCheck' = t
    /\ now' = t
    /\ bootMarked' = IF Len(ledger) = 0
                     THEN bootMarked \cup
                          {UniqueId(feed[i]) : i \in {j \in 1..Len(feed) :
                                                         feed[j].status = "new"}}
                     ELSE bootMarked
    /\ UNCHANGED <<feed, feedState, streakBase>>
    /\ UNCHANGED <<tallyVars, pureVars, appVars>>

\* Coordinates, image generation or posting raises on the k-th batch row:
\* the rows before it are posted, nothing is saved.
CheckFailsAnnouncing(t) ==
    /\ feedState = "ok"
    /\ LET final == FinalNewTransients(feed, ledger, t)
       IN \E k \in 1..Len(TransientsToPost(final)) :
             lastRun' = RunRecord(t, "announce_failed", final,
                                  SubSeq(TransientsToPost(final), 1, k - 1))
    /\ now' = t
    /\ streak' = <<>>
    /\ streakBase' = ledger
    /\ UNCHANGED <<feed, feedState, ledger, lastCheck, bootMarked>>
    /\ UNCHANGED <<tallyVars, pureVars, appVars>>

\* The save of the batch raises before the file is replaced.
CheckFailsSavingBatch(t) ==
    /\ feedState = "ok"
    /\ LET final == FinalNewTransients(feed, ledger, t)
       IN /\ Len(final) > 0
          /\ lastRun' = RunRecord(t, "save_batch_failed", final,
                                  TransientsToPost(final))
    /\ now' = t
    /\ streak' = <<>>
    /\ streakBase' = ledger
    /\ UNCHANGED <<feed, feedState, ledger, lastCheck, bootMarked>>
    /\ UNCHANGED <<tallyVars, pureVars, appVars>>

\* On a first run the save of the historical rows raises before the file is
\* replaced; the save of the batch, if there was one, has been done.
CheckFailsSavingHistorical(t) ==
    /\ feedState = "ok"
    /\ Len(ledger) = 0
    /\ Len(HistoricalNew(feed)) > 0
    /\ LET final == FinalNewTransients(feed, ledger, t)
       IN lastRun' = RunRecord(t, "save_historical_failed", final,
                               TransientsToPost(final))
    /\ ledger' = LedgerAfterBatch(feed, ledger, t)
    /\ now' = t
    /\ streak' = <<>>
    /\ streakBase' = ledger'
    /\ UNCHANGED <<feed, feedState, lastCheck, bootMarked>>
    /\ UNCHANGED <<tallyVars, pureVars, appVars>>

Next ==
    \/ CheckFeedUnreadable
    \/ \E t \in RunTimes : CheckCompletes(t)
    \/ \E t \in RunTimes : CheckFailsAnnouncing(t)
    \/ \E t \in RunTimes : CheckFailsSavingBatch(t)
    \/ \E t \in RunTimes : CheckFailsSavingHistorical(t)

Spec == Init /\ [][Next]_vars

-----------------------------------------------------------------------------
(* Vocabulary of the properties.  lastRun describes the run that produced   *)
(* the current state, so ledger and lastCheck are what that run left.       *)

Ran == lastRun.mode # "none"

Completed == lastRun.outcome = "completed"

Failed ==
    lastRun.outcome \in {"announce_failed", "save_batch_failed",
                         "save_historical_failed"}

Eligible(row) == row.status = "new" \/ row.status = NA

\* Recent at the time the last run started.
RecentAtRun(row) == row.time + RecentDays > lastRun.at

\* The feed rows, in feed order, that are eligible and whose key is not in
\* the given ledger.
EligibleUnprocessed(processed) ==
    SelectRows(feed, [i \in 1..Len(feed) |->
                         Eligible(feed[i])
                         /\ UniqueId(feed[i]) \notin UniqueIds(processed)])

\* Rows are in feed order: a feed row's observation is its position.
InFeedOrder(rows) ==
    \A i \in 1..Len(rows) : \A j \in 1..Len(rows) :
        i < j => rows[i].observation < rows[j].observation

\* The j-th group of at most BatchSize rows of a sequence.
Group(rows, j) ==
    IF BatchSize * (j - 1) + 1 > Len(rows) THEN <<>>
    ELSE SubSeq(rows, BatchSize * (j - 1) + 1, Min(BatchSize * j, Len(rows)))

-----------------------------------------------------------------------------
\* C1: no re-announcement.  A run that starts with a non-empty ledger never
\* puts into its batch a feed row whose identity key is in that ledger.
C1_NoReannouncement ==
    lastRun.mode = "steady" =>
        \A i \in 1..Len(lastRun.batch) :
            UniqueId(lastRun.batch[i]) \notin UniqueIds(lastRun.ledgerBefore)

\* A steady-state run announced something while an eligible feed row was
\* held back because its key was in the ledger.
C1_Witness ==
    /\ lastRun.mode = "steady"
    /\ Completed
    /\ Len(lastRun.announced) > 0
    /\ \E i \in 1..Len(feed) :
          /\ Eligible(feed[i])
          /\ UniqueId(feed[i]) \in UniqueIds(lastRun.ledgerBefore)

\* C2: bootstrap containment.  From an empty ledger, over a feed of N old
\* rows with status "new" and M recent rows with no status, a completed run
\* announces min(M, 5) rows and leaves a ledger that holds the N historical
\* rows and every announced row.
C2_BootstrapContainment ==
    (/\ lastRun.mode = "bootstrap"
     /\ Completed
     /\ \A i \in 1..Len(feed) :
           \/ feed[i].status = "new" /\ ~RecentAtRun(feed[i])
           \/ feed[i].status = NA /\ RecentAtRun(feed[i]))
    => /\ Len(lastRun.announced) =
             Min(Cardinality({i \in 1..Len(feed) : feed[i].status = NA}),
                 BatchSize)
       /\ \A i \in 1..Len(feed) :
             feed[i].status = "new" => UniqueId(feed[i]) \in UniqueIds(ledger)
       /\ UniqueIds(lastRun.announced) \subseteq UniqueIds(ledger)

\* C3: the batch is the first min(5, |candidates|) candidates, the
\* candidates being in feed order; it never has more than 5 rows.
C3_BatchIsHead ==
    Ran =>
        /\ InFeedOrder(lastRun.candidates)
        /\ Len(lastRun.batch) = Min(BatchSize, Len(lastRun.candidates))
        /\ \A i \in 1..Len(lastRun.batch) :
              lastRun.batch[i] = lastRun.candidates[i]
        /\ Len(lastRun.batch) <= BatchSize
        /\ Completed => lastRun.announced = lastRun.batch

\* A completed run had more candidates than fit into one batch.
C3_Witness ==
    Completed /\ Len(lastRun.candidates) > BatchSize

\* C4: in steady state the candidates are the feed rows, in feed order,
\* whose key is not in the ledger and whose status is "new" or missing;
\* recency plays no part.
C4_SteadyCandidates ==
    lastRun.mode = "steady" =>
        lastRun.candidates = EligibleUnprocessed(lastRun.ledgerBefore)

\* A steady-state run chose a row that was not recent while it left out a
\* row of the ledger and a row of another status.
C4_Witness ==
    /\ lastRun.mode = "steady"
    /\ \E i \in 1..Len(lastRun.candidates) : ~RecentAtRun(lastRun.candidates[i])
    /\ \E i \in 1..Len(feed) :
          UniqueId(feed[i]) \in UniqueIds(lastRun.ledgerBefore)
    /\ \E i \in 1..Len(feed) : ~Eligible(feed[i])

\* C5: a row whose status is neither "new" nor missing is never in a batch
\* and never announced, in any run.
C5_OnlyEligibleAnnounced ==
    /\ \A i \in 1..Len(lastRun.batch) : Eligible(lastRun.batch[i])
    /\ \A i \in 1..Len(lastRun.announced) : Eligible(lastRun.announced[i])

\* A run announced something while a row of another status, whose key was
\* not in the ledger, stayed behind.
C5_Witness ==
    /\ Completed
    /\ Len(lastRun.announced) > 0
    /\ \E i \in 1..Len(feed) :
          /\ ~Eligible(feed[i])
          /\ UniqueId(feed[i]) \notin UniqueIds(ledger)

\* C6: FIFO deferral.  From a non-empty ledger and K > 5 eligible
\* unprocessed rows, the j-th of consecutive completed runs announces the
\* j-th group of 5 of those rows in feed order; once ceil(K/5) runs are done
\* all K rows are in the ledger, and the runs after that announce nothing.
C6_FifoDeferral ==
    LET rows == EligibleUnprocessed(streakBase)
    IN (Len(streakBase) > 0 /\ Len(rows) > BatchSize) =>
          /\ \A j \in 1..Len(streak) : streak[j] = Group(rows, j)
          /\ Len(streak) * BatchSize >= Len(rows) =>
                UniqueIds(rows) \subseteq UniqueIds(ledger)

\* Three completed runs in a row over more than 5 eligible unprocessed rows:
\* the third one has nothing left to announce.
C6_Witness ==
    /\ Len(streakBase) > 0
    /\ Len(EligibleUnprocessed(streakBase)) > BatchSize
    /\ Len(streak) = 3
    /\ Len(streak[2]) > 0
    /\ streak[3] = <<>>

C9_FeedUnreadable ==
    lastRun.outcome \in {"feed_missing", "feed_malformed"} =>
        /\ lastRun.announced = <<>>
        /\ ledger = lastRun.ledgerBefore
        /\ lastCheck = lastRun.checkBefore

\* A run found the feed unparsable while a ledger and a watermark existed.
C9_Witness ==
    /\ lastRun.outcome = "feed_malformed"
    /\ Len(ledger) > 0
    /\ lastCheck # NoCheck

\* C10: all-or-nothing append.  When a run fails after it started
\* announcing, the ledger is what it was before the run.
C10_AllOrNothing ==
    Failed => ledger = lastRun.ledgerBefore

\* C21: ledger monotonicity.  No ledger write of a run removes an identity
\* key: the keys after the save of the batch include the keys the run
\* loaded, and when the run has made its last write the keys of the ledger
\* include the keys after the save of the batch, on a first run too.
C21_LedgerMonotone ==
    Ran =>
        LET afterBatch == LedgerAfterBatch(feed, lastRun.ledgerBefore, lastRun.at)
        IN /\ UniqueIds(lastRun.ledgerBefore) \subseteq UniqueIds(ledger)
           /\ Completed =>
                 /\ UniqueIds(lastRun.ledgerBefore) \subseteq UniqueIds(afterBatch)
                 /\ UniqueIds(afterBatch) \subseteq UniqueIds(ledger)

C27_NoReannouncementFromEmpty ==
    Len(streakBase) = 0 =>
        /\ Completed => UniqueIds(lastRun.announced) \subseteq UniqueIds(ledger)
        /\ \A i \in 1..Len(streak) : \A j \in 1..Len(streak) :
               i < j => UniqueIds(streak[i]) \cap UniqueIds(streak[j]) = {}

\* C28: backlog protection persists.  Over consecutive completed runs that
\* start from an empty ledger, a row with no status that was older than 30
\* days when the program started, and so was left out by the first run, is
\* not announced by any of the later runs.
C28_BacklogStaysProtected ==
    Len(streakBase) = 0 =>
        \A j \in 2..Len(streak) : \A i \in 1..Len(streak[j]) :
            ~(streak[j][i].status = NA /\ streak[j][i].time + RecentDays <= Start)

-----------------------------------------------------------------------------
(* The vote tally: src/voting_system/vote_tracker.py.                     *)

\* Reaction symbols, and the vote column each one feeds (lines 27-30, 32).
Symbols == {"milky_way", "fire", "star", "wastebasket"}

\* The categories in the order the votes dict lists them (line 47).
Categories == <<"AGN", "Interesting", "Star", "Junk">>

\* self.thresholds (line 19).
Thresholds == [AGN |-> 3, Interesting |-> 2, Star |-> 2, Junk |-> 3]

\* Identifiers of announced transients.  Python orders strings by code
\* point, a proper prefix first: "AT10" < "AT2" < "at1".
TransientIds == {"AT10", "AT2"}

CodePoints(transient_id) ==
    CASE transient_id = "AT10" -> <<65, 84, 49, 48>>
      [] transient_id = "AT2" -> <<65, 84, 50>>
      [] transient_id = "at1" -> <<97, 116, 49>>
      [] transient_id = "42" -> <<52, 50>>

\* a < b on Python strings.
StrLess(a, b) ==
    LET x == CodePoints(a)
        y == CodePoints(b)
    IN \E k \in 1..(Min(Len(x), Len(y)) + 1) :
          /\ \A i \in 1..(k - 1) : x[i] = y[i]
          /\ \/ k <= Len(x) /\ k <= Len(y) /\ x[k] < y[k]
             \/ k = Len(x) + 1 /\ k <= Len(y)

\* The reaction_counts a handler passes: a dict from the symbols that have
\* a positive count to that count (reaction_handler.py line 117), at most
\* MaxVotes votes on one message.
RECURSIVE SumOver(_, _)
SumOver(f, S) ==
    IF S = {} THEN 0
    ELSE LET x == CHOOSE x \in S : TRUE
         IN f[x] + SumOver(f, S \ {x})

ReactionCounts ==
    UNION {{rc \in [S -> 1..MaxVotes] : SumOver(rc, S) <= MaxVotes} :
           S \in SUBSET Symbols}

\* reaction_counts.get(symbol, 0).
Get(reaction_counts, symbol) ==
    IF symbol \in DOMAIN reaction_counts THEN reaction_counts[symbol] ELSE 0

\* The row update_vote_counts stores for an identifier (lines 27-30, 32).
VoteRow(transient_id, reaction_counts) ==
    [transient_id |-> transient_id,
     agn_votes |-> Get(reaction_counts, "milky_way"),
     interesting_votes |-> Get(reaction_counts, "fire"),
     star_votes |-> Get(reaction_counts, "star"),
     junk_votes |-> Get(reaction_counts, "wastebasket")]

\* The identifiers whose text pd.read_csv parses as an integer.
NumericIds == {"42"}

\* The type pd.read_csv gives the transient_id column of a file (lines 23,
\* 43, 44, 67, 81): integers when every row of the file holds digits,
\* strings otherwise, and when there is no row.
IntColumn(df) ==
    /\ Len(df) > 0
    /\ \A i \in 1..Len(df) : df[i].transient_id \in NumericIds

\* transient_id in df['transient_id'].values, for a frame just read and the
\* str a handler passes: a str equals no integer.
HasId(df, transient_id) ==
    /\ ~IntColumn(df)
    /\ \E i \in 1..Len(df) : df[i].transient_id = transient_id

\* df[df['transient_id'] == transient_id].index[0].
FirstIndex(df, transient_id) ==
    CHOOSE i \in 1..Len(df) :
        /\ df[i].transient_id = transient_id
        /\ \A j \in 1..(i - 1) : df[j].transient_id # transient_id

\* The vote table update_vote_counts writes (lines 25-33): the row of the
\* identifier replaced in place, or a new row at the end.
UpdatedVotes(votes_df, transient_id, reaction_counts) ==
    IF HasId(votes_df, transient_id)
    THEN [votes_df EXCEPT ![FirstIndex(votes_df, transient_id)] =
             VoteRow(transient_id, reaction_counts)]
    ELSE Append(votes_df, VoteRow(transient_id, reaction_counts))

\* The votes dict update_classifications builds from a row (line 47).
VotesOf(row) ==
    [AGN |-> row.agn_votes, Interesting |-> row.interesting_votes,
     Star |-> row.star_votes, Junk |-> row.junk_votes]

\* max(votes.values()) and sum(votes.values()).
MaxVote(votes) ==
    CHOOSE m \in {votes[Categories[i]] : i \in 1..Len(Categories)} :
        \A i \in 1..Len(Categories) : votes[Categories[i]] <= m

SumVotes(votes) == votes.AGN + votes.Interesting + votes.Star + votes.Junk

\* A variant of MaxCategory that takes the last category with the most
\* votes.
MaxCategoryLast(votes) ==
    Categories[CHOOSE i \in 1..Len(Categories) :
        /\ votes[Categories[i]] = MaxVote(votes)
        /\ \A j \in (i + 1)..Len(Categories) :
              votes[Categories[j]] # MaxVote(votes)]

\* max(votes, key=votes.get) (line 61): the first category, in the order
\* of the dict, with the most votes.
MaxCategory(votes) ==
    Categories[CHOOSE i \in 1..Len(Categories) :
        /\ votes[Categories[i]] = MaxVote(votes)
        /\ \A j \in 1..(i - 1) : votes[Categories[j]] # MaxVote(votes)]

\* classify_transient (lines 60-62).
classify_transient(votes) ==
    IF MaxVote(votes) >= Thresholds[MaxCategory(votes)]
    THEN MaxCategory(votes)
    ELSE "Unclassified"

\* A quotient of two naturals as a fraction in lowest terms.
RECURSIVE Gcd(_, _)
Gcd(a, b) == IF b = 0 THEN a ELSE Gcd(b, a % b)

Ratio(n, d) == <<n \div Gcd(n, d), d \div Gcd(n, d)>>

\* A variant of Confidence that gives a confidence to classified records
\* only.
ConfidenceOfClassified(votes) ==
    IF SumVotes(votes) > 0 /\ classify_transient(votes) # "Unclassified"
    THEN Ratio(MaxVote(votes), SumVotes(votes))
    ELSE <<0, 1>>

\* The confidence of line 49: the winner's share of the votes, 0 when
\* there is no vote.
Confidence(votes) ==
    IF SumVotes(votes) > 0
    THEN Ratio(MaxVote(votes), SumVotes(votes))
    ELSE <<0, 1>>

\* The classification row computed for a vote row (lines 47-49, 56).
ClassificationRow(row) ==
    [transient_id |-> row.transient_id,
     classification |-> classify_transient(VotesOf(row)),
     confidence |-> Confidence(VotesOf(row))]

\* A frame in memory: each row with the type its identifier has there, an
\* integer or a str.
Typed(df, int) == [i \in 1..Len(df) |-> [row |-> df[i], int |-> int]]

\* What to_csv writes of a frame: the text of each identifier.
Untyped(df) == [i \in 1..Len(df) |-> df[i].row]

\* Two cells hold equal identifiers: same type, same value.
SameId(a, b) == a.int = b.int /\ a.row.transient_id = b.row.transient_id

\* Lines 51-56: the record replaces the first row that holds its
\* identifier, or is added at the end.
UpsertClassification(class_df, rec) ==
    IF \E i \in 1..Len(class_df) : SameId(class_df[i], rec)
    THEN [class_df EXCEPT
             ![CHOOSE i \in 1..Len(class_df) :
                  /\ SameId(class_df[i], rec)
                  /\ \A j \in 1..(i - 1) : ~SameId(class_df[j], rec)] = rec]
    ELSE Append(class_df, rec)

\* The loop of lines 46-56 over the vote rows, in store order: each row is
\* recomputed and upserted, its identifier typed as the vote frame's.
RECURSIVE UpsertAll(_, _, _)
UpsertAll(votes_df, int, class_df) ==
    IF Len(votes_df) = 0 THEN class_df
    ELSE UpsertAll(Tail(votes_df), int,
             UpsertClassification(class_df,
                 [row |-> ClassificationRow(Head(votes_df)), int |-> int]))

\* The classification table update_classifications writes (lines 43-58),
\* from the two files as read.
UpdatedClassifications(votes_df, class_df) ==
    Untyped(UpsertAll(votes_df, IntColumn(votes_df),
                      Typed(class_df, IntColumn(class_df))))

-----------------------------------------------------------------------------
(* Calls of update_vote_counts made one after the other.                  *)

\* The feed check at rest.
IngestIdle ==
    /\ feed = <<>>
    /\ feedState = "missing"
    /\ ledger = <<>>
    /\ lastCheck = NoCheck
    /\ now = Start
    /\ lastRun = NoRun
    /\ streak = <<>>
    /\ streakBase = <<>>
    /\ bootMarked = {}

\* Neither file exists before the first vote.
TallyInit == IngestIdle /\ TallyIdle /\ PureIdle /\ AppIdle

\* What pd.read_csv returns for a file, or the empty frame of lines 23 and
\* 44 when the file is absent.
Frame(exists, rows) == IF exists THEN rows ELSE <<>>

\* update_vote_counts returns (lines 22-37): the vote file is written, then
\* update_classifications rewrites the classification file from it.
UpdateVoteCounts(transient_id, reaction_counts) ==
    /\ votesRows' = UpdatedVotes(Frame(votesExists, votesRows), transient_id,
                             reaction_counts)
    /\ votesExists' = TRUE
    /\ classRows' = UpdatedClassifications(votesRows',
                                            Frame(classExists, classRows))
    /\ classExists' = TRUE
    /\ lastCall' = [transient_id |-> transient_id,
                    reaction_counts |-> reaction_counts,
                    outcome |-> "returned"]
    /\ UNCHANGED <<handlers, lastWriter>>
    /\ UNCHANGED <<ingestVars, pureVars, appVars>>

TallyNext ==
    \E transient_id \in TransientIds, reaction_counts \in ReactionCounts :
        UpdateVoteCounts(transient_id, reaction_counts)

TallySpec == TallyInit /\ [][TallyNext]_vars

-----------------------------------------------------------------------------
(* The priority queue: get_priority_queue, and the score the voting       *)
(* report prints beside it.                                                *)

\* The score of a vote row (vote_tracker.py line 71).
Score(row) ==
    row.agn_votes * 4 + row.interesting_votes * 3 + row.star_votes * 2
        + row.junk_votes

\* The score generate_voting_report prints for each identifier of the
\* queue (vote_analysis.py line 95).
ReportScore(row) ==
    row.interesting_votes * 5 + row.agn_votes * 4 + row.star_votes * 3
        + row.junk_votes * 2

\* The tuple pushed on the heap for a row (line 72).
HeapEntry(row) == <<0 - Score(row), row.transient_id>>

\* a < b on the tuples (-score, transient_id), as Python compares them.
EntryLess(a, b) ==
    \/ a[1] < b[1]
    \/ a[1] = b[1] /\ StrLess(a[2], b[2])

\* sorted(priority_heap) (line 73): a stable sort of the entries, each
\* entry put behind the ones that are not greater than it.
RECURSIVE Insert(_, _)
Insert(sortedEntries, entry) ==
    IF Len(sortedEntries) = 0 THEN <<entry>>
    ELSE IF EntryLess(entry, Head(sortedEntries))
         THEN <<entry>> \o sortedEntries
         ELSE <<Head(sortedEntries)>> \o Insert(Tail(sortedEntries), entry)

RECURSIVE Sorted(_)
Sorted(entries) ==
    IF Len(entries) = 0 THEN <<>>
    ELSE Insert(Sorted(SubSeq(entries, 1, Len(entries) - 1)),
                entries[Len(entries)])

\* get_priority_queue (lines 64-73): no file, no queue; else the
\* identifiers of the sorted heap entries.
get_priority_queue(exists, votes_df) ==
    IF ~exists THEN <<>>
    ELSE LET entries == Sorted([i \in 1..Len(votes_df) |-> HeapEntry(votes_df[i])])
         IN [i \in 1..Len(entries) |-> entries[i][2]]

\* The rows of a frame last to first: the same table stored in the other
\* order.
RECURSIVE Reversed(_)
Reversed(rows) ==
    IF Len(rows) = 0 THEN <<>>
    ELSE Append(Reversed(Tail(rows)), Head(rows))

-----------------------------------------------------------------------------
(* Properties of the vote tally under TallySpec.                          *)

\* The stored row of an identifier, and its place in the queue.
VoteRowOf(transient_id) == votesRows[FirstIndex(votesRows, transient_id)]

Place(queue, transient_id) == CHOOSE i \in 1..Len(queue) : queue[i] = transient_id

\* The rows of a frame that belong to one identifier.
RowsOf(df, transient_id) ==
    SelectRows(df, [i \in 1..Len(df) |-> df[i].transient_id = transient_id])

\* C11: update_vote_counts overwrites.  After a call for an identifier the
\* vote table holds exactly one row for it, whose four counters are the
\* counts passed for milky_way, fire, star and wastebasket, 0 for a symbol
\* the counts do not mention, whatever the counters were before; the rows
\* of every other identifier are as they were.
C11_CountsOverwritten ==
    [][LET id == lastCall'.transient_id
           rc == lastCall'.reaction_counts
           count(symbol) == IF symbol \in DOMAIN rc THEN rc[symbol] ELSE 0
       IN /\ RowsOf(votesRows', id) =
                 <<[transient_id |-> id,
                    agn_votes |-> count("milky_way"),
                    interesting_votes |-> count("fire"),
                    star_votes |-> count("star"),
                    junk_votes |-> count("wastebasket")]>>
          /\ \A other \in TransientIds \ {id} :
                 RowsOf(votesRows', other) = RowsOf(votesRows, other)]_vars

-----------------------------------------------------------------------------
(* classify_transient applied to drawn vote counts.                       *)

\* Every votes dict with up to MaxCount votes in each category.
VoteDicts ==
    [AGN : 0..MaxCount, Interesting : 0..MaxCount, Star : 0..MaxCount,
     Junk : 0..MaxCount]

ClassifyInit ==
    /\ IngestIdle
    /\ TallyIdle
    /\ classifyIn \in VoteDicts
    /\ classifyOut = ""
    /\ confidenceOut = <<>>
    /\ coordIn = <<>>
    /\ coordOut = <<>>
    /\ AppIdle

\* classification and confidence of a votes dict (lines 48-49).
Classify ==
    /\ classifyOut = ""
    /\ classifyOut' = classify_transient(classifyIn)
    /\ confidenceOut' = Confidence(classifyIn)
    /\ UNCHANGED <<classifyIn, coordIn, coordOut>>
    /\ UNCHANGED <<ingestVars, tallyVars, appVars>>

ClassifyNext == Classify

ClassifySpec == ClassifyInit /\ [][ClassifyNext]_vars

\* C13: classification by threshold.  The winner is the category with the
\* most votes, the first one in the order AGN, Interesting, Star, Junk when
\* several have the most; the result is the winner when its votes reach its
\* threshold (AGN 3, Interesting 2, Star 2, Junk 3), "Unclassified"
\* otherwise.  {AGN:3} gives "AGN", {AGN:2} gives "Unclassified", and the
\* tie {AGN:2, Interesting:2} gives "Unclassified".
C13_ClassifyByThreshold ==
    classifyOut # "" =>
        LET order == <<"AGN", "Interesting", "Star", "Junk">>
            threshold == [AGN |-> 3, Interesting |-> 2, Star |-> 2, Junk |-> 3]
            v == classifyIn
            wins(k) == /\ \A j \in 1..4 : v[order[j]] <= v[order[k]]
                       /\ \A j \in 1..(k - 1) : v[order[j]] < v[order[k]]
        IN /\ \A k \in 1..4 :
                  wins(k) =>
                      classifyOut = IF v[order[k]] >= threshold[order[k]]
                                    THEN order[k]
                                    ELSE "Unclassified"
           /\ v = [AGN |-> 3, Interesting |-> 0, Star |-> 0, Junk |-> 0]
                  => classifyOut = "AGN"
           /\ v = [AGN |-> 2, Interesting |-> 0, Star |-> 0, Junk |-> 0]
                  => classifyOut = "Unclassified"
           /\ v = [AGN |-> 2, Interesting |-> 2, Star |-> 0, Junk |-> 0]
                  => classifyOut = "Unclassified"

\* The tie of AGN and Interesting at two votes has been classified: AGN is
\* the winner and misses its threshold, though Interesting reaches its own.
C13_Witness ==
    /\ classifyIn = [AGN |-> 2, Interesting |-> 2, Star |-> 0, Junk |-> 0]
    /\ classifyOut = "Unclassified"

\* C24: the confidence is the winner's share.  The confidence computed for
\* a votes dict, a fraction n/d, equals votes[winner] / (sum of the four
\* counters) when the sum is positive and is 0 when it is 0, whether the
\* dict is classified or left "Unclassified"; so it lies in [0, 1], and is
\* at least 1/4 when there is any vote.
C24_ConfidenceIsWinnerShare ==
    classifyOut # "" =>
        LET order == <<"AGN", "Interesting", "Star", "Junk">>
            v == classifyIn
            sum == v.AGN + v.Interesting + v.Star + v.Junk
            n == confidenceOut[1]
            d == confidenceOut[2]
            wins(k) == /\ \A j \in 1..4 : v[order[j]] <= v[order[k]]
                       /\ \A j \in 1..(k - 1) : v[order[j]] < v[order[k]]
        IN /\ d > 0
           /\ \A k \in 1..4 :
                  (wins(k) /\ sum > 0) => n * sum = v[order[k]] * d
           /\ sum = 0 => n = 0
           /\ 0 <= n /\ n <= d
           /\ sum > 0 => 4 * n >= d

\* One vote in each category: the dict stays unclassified and its
\* confidence is exactly 1/4.
C24_Witness ==
    /\ classifyIn = [AGN |-> 1, Interesting |-> 1, Star |-> 1, Junk |-> 1]
    /\ classifyOut = "Unclassified"
    /\ confidenceOut = <<1, 4>>

-----------------------------------------------------------------------------
(* Properties of the priority queue under TallySpec.                      *)

\* The identifiers the vote table holds.
StoredIds == {votesRows[i].transient_id : i \in 1..Len(votesRows)}

\* C14: the queue lists the identifiers of the vote table by descending
\* score = Interesting*5 + AGN*4 + Star*3 + Junk*2: of two identifiers, the
\* one with the greater score under these weights comes first.
C14_DescendingWeightedScore ==
    LET queue == get_priority_queue(votesExists, votesRows)
        score(id) == VoteRowOf(id).interesting_votes * 5
                         + VoteRowOf(id).agn_votes * 4
                         + VoteRowOf(id).star_votes * 3
                         + VoteRowOf(id).junk_votes * 2
    IN /\ {queue[i] : i \in 1..Len(queue)} = StoredIds
       /\ Len(queue) = Len(votesRows)
       /\ \A X, Y \in StoredIds :
              score(X) > score(Y) => Place(queue, X) < Place(queue, Y)

\* C15: ties are broken deterministically.  Two identifiers with the same
\* priority score (Interesting*5 + AGN*4 + Star*3 + Junk*2) appear in
\* ascending lexicographic order of transient_id, and the queue is the same
\* whichever order the store holds the rows in.
C15_TieBreakDeterminism ==
    LET queue == get_priority_queue(votesExists, votesRows)
        score(id) == VoteRowOf(id).interesting_votes * 5
                         + VoteRowOf(id).agn_votes * 4
                         + VoteRowOf(id).star_votes * 3
                         + VoteRowOf(id).junk_votes * 2
    IN /\ \A X, Y \in StoredIds :
              score(X) = score(Y) /\ StrLess(X, Y)
                  => Place(queue, X) < Place(queue, Y)
       /\ get_priority_queue(votesExists, Reversed(votesRows)) = queue

\* The same two properties with the score get_priority_queue computes:
\* ties of AGN*4 + Interesting*3 + Star*2 + Junk are in ascending order of
\* transient_id, whichever order the rows are stored in.
TieBreakOnComputedScore ==
    LET queue == get_priority_queue(votesExists, votesRows)
    IN /\ \A X, Y \in StoredIds :
              Score(VoteRowOf(X)) = Score(VoteRowOf(Y)) /\ StrLess(X, Y)
                  => Place(queue, X) < Place(queue, Y)
       /\ get_priority_queue(votesExists, Reversed(votesRows)) = queue

\* C16: update_vote_counts is idempotent.  Making the call that has just
\* returned once more, with the same identifier and the same counts, writes
\* the same vote table and the same classification table: no row is added
\* and none changes.
C16_Idempotent ==
    lastCall.outcome = "returned" =>
        LET again == UpdatedVotes(Frame(votesExists, votesRows),
                                  lastCall.transient_id,
                                  lastCall.reaction_counts)
        IN /\ again = votesRows
           /\ UpdatedClassifications(again, Frame(classExists, classRows))
                  = classRows

-----------------------------------------------------------------------------
(* Two reaction handlers at once.  The listeners of the reaction events   *)
(* run on the threads of the Bolt app, and update_vote_counts takes no    *)
(* lock: a handler reads vote_counts.csv (line 23), writes it (line 35),  *)
(* reads both files again in update_classifications (lines 43-44) and     *)
(* writes classifications.csv (line 58), and the other handler may take   *)
(* any of its steps in between.                                           *)

RaceInit == IngestIdle /\ TallyIdle /\ PureIdle /\ AppIdle

\* The handler has its identifier and reaction counts (reaction_handler.py
\* lines 38-43) and update_vote_counts has read the vote file (line 23).
ReadVotes(h, transient_id, reaction_counts) ==
    /\ handlers[h].pc = "idle"
    /\ handlers' = [handlers EXCEPT ![h] =
           [pc |-> "votes_read", transient_id |-> transient_id,
            reaction_counts |-> reaction_counts,
            votes_df |-> Frame(votesExists, votesRows),
            votes_reread |-> <<>>, class_df |-> <<>>]]
    /\ UNCHANGED <<votesExists, votesRows, classExists, classRows, lastCall,
                   lastWriter>>
    /\ UNCHANGED <<ingestVars, pureVars, appVars>>

\* A variant of WriteVotes that applies the update to the file as it is at
\* the moment of the write.
WriteVotesOntoCurrent(h) ==
    /\ handlers[h].pc = "votes_read"
    /\ votesRows' = UpdatedVotes(Frame(votesExists, votesRows),
                                 handlers[h].transient_id,
                                 handlers[h].reaction_counts)
    /\ votesExists' = TRUE
    /\ lastWriter' = h
    /\ handlers' = [handlers EXCEPT ![h].pc = "votes_written"]
    /\ UNCHANGED <<classExists, classRows, lastCall>>
    /\ UNCHANGED <<ingestVars, pureVars, appVars>>

\* Lines 25-35: the frame read at line 23, with the handler's row set,
\* replaces the vote file.
WriteVotes(h) ==
    /\ handlers[h].pc = "votes_read"
    /\ votesRows' = UpdatedVotes(handlers[h].votes_df,
                                 handlers[h].transient_id,
                                 handlers[h].reaction_counts)
    /\ votesExists' = TRUE
    /\ lastWriter' = h
    /\ handlers' = [handlers EXCEPT ![h].pc = "votes_written"]
    /\ UNCHANGED <<classExists, classRows, lastCall>>
    /\ UNCHANGED <<ingestVars, pureVars, appVars>>

\* update_classifications reads both files (lines 43-44).
ReadForClassifications(h) ==
    /\ handlers[h].pc = "votes_written"
    /\ handlers' = [handlers EXCEPT
           ![h].pc = "tables_read",
           ![h].votes_reread = Frame(votesExists, votesRows),
           ![h].class_df = Frame(classExists, classRows)]
    /\ UNCHANGED <<votesExists, votesRows, classExists, classRows, lastCall,
                   lastWriter>>
    /\ UNCHANGED <<ingestVars, pureVars, appVars>>

\* Lines 46-58: the records of the vote rows read are upserted into the
\* classification frame read, which replaces the classification file; the
\* handler returns.
WriteClassifications(h) ==
    /\ handlers[h].pc = "tables_read"
    /\ classRows' = UpdatedClassifications(handlers[h].votes_reread,
                                           handlers[h].class_df)
    /\ classExists' = TRUE
    /\ handlers' = [handlers EXCEPT ![h].pc = "done"]
    /\ UNCHANGED <<votesExists, votesRows, lastCall, lastWriter>>
    /\ UNCHANGED <<ingestVars, pureVars, appVars>>

\* update_classifications raises after the vote file has been written: a
\* read of lines 43-44 or the write of line 58 fails.  The exception ends
\* update_vote_counts and is caught by the handler (reaction_handler.py
\* lines 50-51); classifications.csv is as it was.
FailClassifying(h) ==
    /\ handlers[h].pc \in {"votes_written", "tables_read"}
    /\ handlers' = [handlers EXCEPT ![h].pc = "failed"]
    /\ UNCHANGED <<votesExists, votesRows, classExists, classRows, lastCall,
                   lastWriter>>
    /\ UNCHANGED <<ingestVars, pureVars, appVars>>

RaceNext ==
    \/ \E h \in Handlers, transient_id \in TransientIds,
          reaction_counts \in ReactionCounts :
          ReadVotes(h, transient_id, reaction_counts)
    \/ \E h \in Handlers : WriteVotes(h)
    \/ \E h \in Handlers : ReadForClassifications(h)
    \/ \E h \in Handlers : WriteClassifications(h)
    \/ \E h \in Handlers : FailClassifying(h)

RaceSpec == RaceInit /\ [][RaceNext]_vars

-----------------------------------------------------------------------------
(* Properties of concurrent handlers under RaceSpec.                      *)

\* The handler has written vote_counts.csv.
HasWritten(h) ==
    handlers[h].pc \in {"votes_written", "tables_read", "done", "failed"}

\* C17: lost update.  When two handlers, for different identifiers, have
\* both written the vote table, and the one that wrote last had read the
\* table before the other one's row was in it, then the table lacks the
\* other one's row: the full-table rewrite of the last writer wins and the
\* first update is lost.
C17_LostUpdate ==
    \A h, g \in Handlers :
        /\ h # g
        /\ HasWritten(h)
        /\ HasWritten(g)
        /\ lastWriter = h
        /\ handlers[h].transient_id # handlers[g].transient_id
        /\ ~HasId(handlers[h].votes_df, handlers[g].transient_id)
        => ~HasId(votesRows, handlers[g].transient_id)

\* Both handlers have returned, each after an update for its own
\* identifier, and the vote table holds the row of one of them only.
C17_Witness ==
    /\ handlers[1].pc = "done"
    /\ handlers[2].pc = "done"
    /\ handlers[1].transient_id = "AT10"
    /\ handlers[2].transient_id = "AT2"
    /\ DOMAIN handlers[1].reaction_counts = {"fire"}
    /\ Len(votesRows) = 1
    /\ votesRows[1].transient_id = "AT2"

\* C18: no partial update.  When update_vote_counts has failed after the
\* vote table was written, and no other handler has run, the classification
\* table still agrees with the vote table: every vote row has exactly one
\* record, with the classification and confidence of its counters.
C18_NoPartialUpdate ==
    \A h, g \in Handlers :
        handlers[h].pc = "failed" /\ handlers[g].pc = "idle" =>
            \A i \in 1..Len(votesRows) :
                RowsOf(Frame(classExists, classRows),
                       votesRows[i].transient_id) =
                    <<ClassificationRow(votesRows[i])>>

-----------------------------------------------------------------------------
(* process_transient_coordinates applied to drawn feed rows.              *)

\* A float of a coordinate column: NaN (an empty cell of the feed), or a
\* number of degrees.
NaN == [nan |-> TRUE, deg |-> 0]

Deg(x) == [nan |-> FALSE, deg |-> x]

\* Right ascensions and declinations the feed may carry: right ascensions
\* below -360, at -360, between -360 and 0, at 0, inside (0, 360), at 360
\* and above it.
RaValues == {Deg(x) : x \in {0 - 400, 0 - 360, 0 - 10, 0, 10, 350, 360, 370}}

DecValues == {Deg(x) : x \in {0 - 30, 45}}

\* A feed row as process_transient_coordinates sees it: whether the feed
\* has the centroid columns, and the four coordinate cells.  The primary
\* coordinates are numbers; a centroid cell may be empty.
CoordRows ==
    {r \in [has_centroid : BOOLEAN, ra : RaValues, dec : DecValues,
            centroid_ra : RaValues \cup {NaN},
            centroid_dec : DecValues \cup {NaN}] :
        ~r.has_centroid => r.centroid_ra = NaN /\ r.centroid_dec = NaN}

\* process_transient_coordinates (lines 174-190): the centroid pair when
\* the centroid right ascension is there and is not NaN, else the primary
\* pair; 360 is added to a negative right ascension.
process_transient_coordinates(row) ==
    LET useCentroid == row.has_centroid /\ ~row.centroid_ra.nan
        ra == IF useCentroid THEN row.centroid_ra ELSE row.ra
        dec == IF useCentroid THEN row.centroid_dec ELSE row.dec
    IN [ra |-> IF ~ra.nan /\ ra.deg < 0 THEN Deg(ra.deg + 360) ELSE ra,
        dec |-> dec]

CoordInit ==
    /\ IngestIdle
    /\ TallyIdle
    /\ classifyIn = <<>>
    /\ classifyOut = ""
    /\ confidenceOut = <<>>
    /\ coordIn \in CoordRows
    /\ coordOut = <<>>
    /\ AppIdle

\* ra, dec = process_transient_coordinates(row) (line 434).
ResolveCoordinates ==
    /\ coordOut = <<>>
    /\ coordOut' = process_transient_coordinates(coordIn)
    /\ UNCHANGED <<classifyIn, classifyOut, confidenceOut, coordIn>>
    /\ UNCHANGED <<ingestVars, tallyVars, appVars>>

CoordNext == ResolveCoordinates

CoordSpec == CoordInit /\ [][CoordNext]_vars

\* C19: the centroid pair is returned only when both the centroid right
\* ascension and the centroid declination are there and not NaN; otherwise
\* the primary pair is.  The declination returned is the chosen pair's,
\* unchanged, and is never NaN when the primary declination is a number;
\* the right ascension is the chosen pair's, up to the added 360.
C19_CentroidOnlyWhenBothValid ==
    coordOut # <<>> =>
        LET row == coordIn
            both == /\ row.has_centroid
                    /\ ~row.centroid_ra.nan
                    /\ ~row.centroid_dec.nan
            ra == IF both THEN row.centroid_ra ELSE row.ra
            dec == IF both THEN row.centroid_dec ELSE row.dec
        IN /\ coordOut.dec = dec
           /\ coordOut.ra \in {ra, Deg(ra.deg + 360)}
           /\ ~row.dec.nan => ~coordOut.dec.nan

\* C20: the right ascension returned lies in [0, 360) for every input right
\* ascension, centroid or primary, those at or above 360 and those below
\* -360 included.
C20_RaInRange ==
    coordOut # <<>> =>
        /\ ~coordOut.ra.nan
        /\ 0 <= coordOut.ra.deg
        /\ coordOut.ra.deg < 360

-----------------------------------------------------------------------------
(* The read operations of the tally: get_priority_queue,                  *)
(* get_top_transients and get_transient_votes, between vote updates.      *)

\* What get_transient_votes returns: None, or the dict of the row's votes.
NotFound == [found |-> FALSE]

Found(row) == [found |-> TRUE, votes |-> VotesOf(row)]

\* self.get_priority_queue()[:n] (line 76).
get_top_transients(exists, votes_df, n) ==
    LET queue == get_priority_queue(exists, votes_df)
    IN SubSeq(queue, 1, Min(n, Len(queue)))

\* A variant of get_transient_votes that answers with zero votes where
\* there is no row.
get_transient_votes_zeros(exists, votes_df, transient_id) ==
    IF exists /\ HasId(votes_df, transient_id)
    THEN Found(votes_df[FirstIndex(votes_df, transient_id)])
    ELSE Found(VoteRow(transient_id, <<>>))

\* get_transient_votes (lines 78-86): None when the file is absent or holds
\* no row of the identifier, else the votes of its first row.
get_transient_votes(exists, votes_df, transient_id) ==
    IF ~exists THEN NotFound
    ELSE IF HasId(votes_df, transient_id)
         THEN Found(votes_df[FirstIndex(votes_df, transient_id)])
         ELSE NotFound

\* The identifiers asked for: the ones that get votes, and one that never
\* does.
QueryIds == TransientIds \cup {"at1"}

\* The sizes get_top_transients is asked for: one identifier, the default
\* of line 75, and the 10 of the "voting results" command
\* (transient_monitor.py line 496).
TopSizes == {1, 5, 10}

\* The updates between the reads: reaction dicts of at most one vote.
ReadCounts == {rc \in ReactionCounts : SumOver(rc, DOMAIN rc) <= 1}

ReadInit == IngestIdle /\ TallyIdle /\ PureIdle /\ AppIdle

GetPriorityQueue ==
    /\ lastRead' = [op |-> "get_priority_queue", transient_id |-> "", n |-> 0,
                    result |-> get_priority_queue(votesExists, votesRows)]
    /\ UNCHANGED <<lastEvent, mainPc, boltPc, inCheck, jobDue, checksDone>>
    /\ UNCHANGED <<ingestVars, tallyVars, pureVars>>

GetTopTransients(n) ==
    /\ lastRead' = [op |-> "get_top_transients", transient_id |-> "", n |-> n,
                    result |-> get_top_transients(votesExists, votesRows, n)]
    /\ UNCHANGED <<lastEvent, mainPc, boltPc, inCheck, jobDue, checksDone>>
    /\ UNCHANGED <<ingestVars, tallyVars, pureVars>>

GetTransientVotes(transient_id) ==
    /\ lastRead' = [op |-> "get_transient_votes",
                    transient_id |-> transient_id, n |-> 0,
                    result |-> get_transient_votes(votesExists, votesRows,
                                                   transient_id)]
    /\ UNCHANGED <<lastEvent, mainPc, boltPc, inCheck, jobDue, checksDone>>
    /\ UNCHANGED <<ingestVars, tallyVars, pureVars>>

ReadNext ==
    \/ \E transient_id \in TransientIds, reaction_counts \in ReadCounts :
          UpdateVoteCounts(transient_id, reaction_counts)
    \/ GetPriorityQueue
    \/ \E n \in TopSizes : GetTopTransients(n)
    \/ \E transient_id \in QueryIds : GetTransientVotes(transient_id)

ReadSpec == ReadInit /\ [][ReadNext]_vars

\* C23: reads on an absent vote table.  A read operation changes neither
\* file, creates none and raises nothing: while vote_counts.csv is absent
\* get_priority_queue and get_top_transients return the empty list and
\* get_transient_votes returns None, and get_transient_votes returns None
\* too for an identifier that an existing table has no row of.
C23_ReadsOnAbsentTable ==
    [][lastRead' # lastRead =>
          /\ UNCHANGED <<votesExists, votesRows, classExists, classRows>>
          /\ (~votesExists /\ lastRead'.op \in {"get_priority_queue",
                                               "get_top_transients"})
                 => lastRead'.result = <<>>
          /\ (lastRead'.op = "get_transient_votes"
              /\ (~votesExists
                  \/ \A i \in 1..Len(votesRows) :
                        votesRows[i].transient_id # lastRead'.transient_id))
                 => lastRead'.result = [found |-> FALSE]]_vars

\* get_transient_votes has answered None for an identifier while neither
\* file exists.
C23_Witness ==
    /\ ~votesExists
    /\ ~classExists
    /\ lastRead.op = "get_transient_votes"
    /\ lastRead.transient_id = "AT2"
    /\ lastRead.result = NotFound


-----------------------------------------------------------------------------
(* Calls of update_vote_counts for the identifiers a message can give,    *)
(* one after the other.                                                   *)

\* Identifiers _extract_transient_id returns (reaction_handler.py lines
\* 72-83): "AT2" for a message that names AT2, "42" for one that says
\* "ID: 42".
ExtractedIds == {"AT2"} \cup NumericIds

\* The vote table is followed up to this many rows.
MaxRows == 3

ExtractedInit == IngestIdle /\ TallyIdle /\ PureIdle /\ AppIdle

\* update_vote_counts for an extracted identifier.
UpdateExtracted(transient_id, reaction_counts) ==
    /\ Len(UpdatedVotes(Frame(votesExists, votesRows), transient_id,
                        reaction_counts)) <= MaxRows
    /\ UpdateVoteCounts(transient_id, reaction_counts)

ExtractedNext ==
    \E transient_id \in ExtractedIds, reaction_counts \in ReadCounts :
        UpdateExtracted(transient_id, reaction_counts)

ExtractedSpec == ExtractedInit /\ [][ExtractedNext]_vars

\* C25: one record per identifier.  After any calls of update_vote_counts
\* made one after the other, every identifier of the classification table
\* has a row in the vote table, and neither table holds two rows with the
\* same identifier.
C25_OneRecordPerId ==
    /\ \A i \in 1..Len(classRows) : \E j \in 1..Len(votesRows) :
           votesRows[j].transient_id = classRows[i].transient_id
    /\ \A i, j \in 1..Len(votesRows) :
           votesRows[i].transient_id = votesRows[j].transient_id => i = j
    /\ \A i, j \in 1..Len(classRows) :
           classRows[i].transient_id = classRows[j].transient_id => i = j


-----------------------------------------------------------------------------
(* The threads of the program (__main__, lines 545-567).                  *)

\* The checks of one execution that are followed.
MaxChecks == 4

\* The listeners registered on the Slack app: the two message commands
\* (lines 487, 521) and the two reaction events (reaction_handler.py lines
\* 12, 16).
Listeners ==
    {"voting_results", "vote_summary", "reaction_added", "reaction_removed"}

\* A variant of Calls in which the "voting results" command also starts a
\* check.
CallsWithManualCheck(listener) ==
    CASE listener = "voting_results" ->
             {"get_top_transients", "get_transient_votes",
              "check_for_new_transients"}
      [] listener = "vote_summary" -> {"get_voting_summary"}
      [] listener \in {"reaction_added", "reaction_removed"} ->
             {"_process_reaction_event"}
      [] listener = "job" -> {"check_for_new_transients"}

\* The functions of the program that a listener, or the scheduled job,
\* calls (lines 487-538, 557; reaction_handler.py lines 11-18).
Calls(listener) ==
    CASE listener = "voting_results" ->
             {"get_top_transients", "get_transient_votes"}
      [] listener = "vote_summary" -> {"get_voting_summary"}
      [] listener \in {"reaction_added", "reaction_removed"} ->
             {"_process_reaction_event"}
      [] listener = "job" -> {"check_for_new_transients"}

\* The threads that are inside check_for_new_transients once a thread has
\* made the calls of a listener.
Entering(thread, listener) ==
    IF "check_for_new_transients" \in Calls(listener)
    THEN inCheck \cup {thread}
    ELSE inCheck

WiringInit == IngestIdle /\ TallyIdle /\ PureIdle /\ AppIdle

\* Lines 557-560: the job is registered and the main thread runs the
\* initial check.
InitialCheck ==
    /\ mainPc = "not_started"
    /\ mainPc' = "initial_check"
    /\ inCheck' = inCheck \cup {"main"}
    /\ UNCHANGED <<boltPc, jobDue, checksDone>>

\* check_for_new_transients returns to its caller: to __main__ (line 560)
\* or to run_pending (line 483).
CheckReturns ==
    /\ mainPc \in {"initial_check", "scheduled_check"}
    /\ mainPc' = IF mainPc = "initial_check" THEN "start_bolt" ELSE "sleep"
    /\ inCheck' = inCheck \ {"main"}
    /\ checksDone' = checksDone + 1
    /\ UNCHANGED <<boltPc, jobDue>>

\* Lines 563-567: the Slack app starts in a thread of its own and the main
\* thread enters run_scheduler.
StartBoltThread ==
    /\ mainPc = "start_bolt"
    /\ mainPc' = "run_pending"
    /\ boltPc' = "listening"
    /\ UNCHANGED <<inCheck, jobDue, checksDone>>

\* The clock passes 12:00: the job registered on line 557 is due.
Noon ==
    /\ mainPc # "not_started"
    /\ checksDone < MaxChecks
    /\ ~jobDue
    /\ jobDue' = TRUE
    /\ UNCHANGED <<mainPc, boltPc, inCheck, checksDone>>

\* schedule.run_pending() (line 483) runs the job, when it is due, in the
\* thread that calls it.
RunPending ==
    /\ mainPc = "run_pending"
    /\ IF jobDue
       THEN /\ mainPc' = "scheduled_check"
            /\ inCheck' = Entering("main", "job")
            /\ jobDue' = FALSE
       ELSE /\ mainPc' = "sleep"
            /\ UNCHANGED <<inCheck, jobDue>>
    /\ UNCHANGED <<boltPc, checksDone>>

\* time.sleep(60) ends (line 484).
Wake ==
    /\ mainPc = "sleep"
    /\ mainPc' = "run_pending"
    /\ UNCHANGED <<boltPc, inCheck, jobDue, checksDone>>

\* The Slack app thread runs a listener for a message or an event.
Listen(listener) ==
    /\ boltPc = "listening"
    /\ boltPc' = listener
    /\ inCheck' = Entering("bolt", listener)
    /\ UNCHANGED <<mainPc, jobDue, checksDone>>

\* The listener returns.
ListenerReturns ==
    /\ boltPc \in Listeners
    /\ boltPc' = "listening"
    /\ inCheck' = inCheck \ {"bolt"}
    /\ UNCHANGED <<mainPc, jobDue, checksDone>>

WiringNext ==
    /\ \/ InitialCheck
       \/ CheckReturns
       \/ StartBoltThread
       \/ Noon
       \/ RunPending
       \/ Wake
       \/ \E listener \in Listeners : Listen(listener)
       \/ ListenerReturns
    /\ UNCHANGED <<lastRead, lastEvent>>
    /\ UNCHANGED <<ingestVars, tallyVars, pureVars>>

WiringSpec == WiringInit /\ [][WiringNext]_vars

\* C26: ingestion runs never overlap.  At most one thread is inside
\* check_for_new_transients at any time, and it is the main thread, which
\* runs the initial check and then every scheduled one from run_pending;
\* the Slack app thread is never inside it.
C26_RunsNeverOverlap ==
    /\ Cardinality(inCheck) <= 1
    /\ inCheck \subseteq {"main"}
    /\ inCheck = {"main"} <=> mainPc \in {"initial_check", "scheduled_check"}

\* A scheduled check runs, after the initial one, while the Slack app
\* thread handles a reaction and the job has come due again.
C26_Witness ==
    /\ mainPc = "scheduled_check"
    /\ inCheck = {"main"}
    /\ boltPc = "reaction_added"
    /\ jobDue
    /\ checksDone >= 1


-----------------------------------------------------------------------------
(* Reaction events, as _process_reaction_event treats them                 *)
(* (reaction_handler.py lines 20-51), one after the other.                 *)

\* event.get("reaction"): a voting symbol, another emoji, or nothing.
EventReactions == {"fire", "thumbsup", ""}

\* event["item"]["channel"] and event["item"]["ts"], each there or not.
EventChannels == {"C1", ""}

EventTimestamps == {"1700000000.000100", ""}

\* The text of the message the reaction is on: the text the monitor posts
\* (transient_monitor.py line 370), and two messages that name a transient
\* the way the patterns of lines 72-77 expect.
MessageTexts ==
    {"New transient detected: J0101_1", "New Transient: AT2", "ID: AT10"}

\* _extract_transient_id on the text of the message (lines 72-83): the
\* word after "Transient:" or "ID:", a name AT or SN followed by four
\* digits, or None ("") when no pattern is found.
extract_transient_id(message_text) ==
    CASE message_text = "New transient detected: J0101_1" -> ""
      [] message_text = "New Transient: AT2" -> "AT2"
      [] message_text = "ID: AT10" -> "AT10"

\* What reactions_get gives for the message: it raises, it answers with ok
\* false, or it answers with the reactions of the message, each with its
\* count and whether the bot is one of its users.
ReactionsGetResults ==
    {[ok |-> "raises", reactions |-> <<>>],
     [ok |-> "false", reactions |-> <<>>],
     [ok |-> "true", reactions |-> <<>>],
     [ok |-> "true",
      reactions |-> <<[name |-> "fire", count |-> 1, bot |-> FALSE]>>],
     [ok |-> "true",
      reactions |-> <<[name |-> "fire", count |-> 1, bot |-> TRUE]>>],
     [ok |-> "true",
      reactions |-> <<[name |-> "fire", count |-> 2, bot |-> TRUE]>>],
     [ok |-> "true",
      reactions |-> <<[name |-> "thumbsup", count |-> 1, bot |-> FALSE]>>],
     [ok |-> "true",
      reactions |-> <<[name |-> "thumbsup", count |-> 1, bot |-> FALSE],
                      [name |-> "fire", count |-> 1, bot |-> FALSE]>>]}

\* Lines 107-113: the count of a reaction without the bot's own.
CountWithoutBot(reaction_data) ==
    IF reaction_data.bot
    THEN (IF reaction_data.count - 1 > 0 THEN reaction_data.count - 1 ELSE 0)
    ELSE reaction_data.count

\* _get_message_reactions (lines 90-121): the voting symbols of the
\* message that have a positive count, with that count; the empty dict
\* when the request fails.
get_message_reactions(result) ==
    IF result.ok # "true" THEN <<>>
    ELSE LET reactions == result.reactions
             kept == {i \in 1..Len(reactions) :
                         /\ reactions[i].name \in Symbols
                         /\ CountWithoutBot(reactions[i]) > 0}
         IN [name \in {reactions[i].name : i \in kept} |->
                CountWithoutBot(reactions[CHOOSE i \in kept :
                    /\ reactions[i].name = name
                    /\ \A j \in kept : reactions[j].name = name => j <= i])]

\* A variant of IsVotingReaction that takes every emoji for a vote.
IsVotingReactionAny(reaction) == reaction # ""

\* reaction in self.reaction_map (line 34).
IsVotingReaction(reaction) == reaction \in Symbols

\* How far _process_reaction_event gets with an event (lines 29-46).
Outcome(reaction, channel, ts, message_text) ==
    IF reaction = "" \/ channel = "" \/ ts = "" THEN "incomplete"
    ELSE IF ~IsVotingReaction(reaction) THEN "not_voting"
    ELSE IF extract_transient_id(message_text) = "" THEN "no_transient"
    ELSE "updated"

HandlerInit == IngestIdle /\ TallyIdle /\ PureIdle /\ AppIdle

\* _process_reaction_event for one event (lines 20-51): it returns early,
\* or fetches the counts of the message and hands them to
\* update_vote_counts.
ProcessReactionEvent(reaction, channel, ts, message_text, result) ==
    LET outcome == Outcome(reaction, channel, ts, message_text)
        transient_id == extract_transient_id(message_text)
        reaction_counts == get_message_reactions(result)
    IN /\ lastEvent' = [reaction |-> reaction, channel |-> channel, ts |-> ts,
                        message |-> message_text,
                        fetched |-> IF outcome = "updated" THEN result.ok
                                    ELSE "",
                        outcome |-> outcome]
       /\ IF outcome = "updated"
          THEN /\ votesRows' = UpdatedVotes(Frame(votesExists, votesRows),
                                            transient_id, reaction_counts)
               /\ votesExists' = TRUE
               /\ classRows' = UpdatedClassifications(votesRows',
                                   Frame(classExists, classRows))
               /\ classExists' = TRUE
               /\ lastCall' = [transient_id |-> transient_id,
                               reaction_counts |-> reaction_counts,
                               outcome |-> "returned"]
          ELSE UNCHANGED <<votesExists, votesRows, classExists, classRows,
                           lastCall>>
       /\ UNCHANGED <<handlers, lastWriter>>
       /\ UNCHANGED <<lastRead, mainPc, boltPc, inCheck, jobDue, checksDone>>
       /\ UNCHANGED <<ingestVars, pureVars>>

HandlerNext ==
    \E reaction \in EventReactions, channel \in EventChannels,
       ts \in EventTimestamps, message_text \in MessageTexts,
       result \in ReactionsGetResults :
        ProcessReactionEvent(reaction, channel, ts, message_text, result)

HandlerSpec == HandlerInit /\ [][HandlerNext]_vars

\* C29: a failed fetch leaves the records alone.  When the event is a vote
\* on a message that names a transient and reactions_get raises or answers
\* with ok false, the vote table and the classification table are after
\* the event what they were before it: no row is added and no counter is
\* set to 0.
C29_FetchFailureKeepsRecords ==
    [][(/\ lastEvent'.reaction \in Symbols
        /\ lastEvent'.channel # "" /\ lastEvent'.ts # ""
        /\ lastEvent'.message \in {"New Transient: AT2", "ID: AT10"}
        /\ lastEvent'.fetched \in {"raises", "false"})
          => UNCHANGED <<votesExists, votesRows, classExists, classRows>>]_vars

\* C30: events that are not votes change nothing.  An event whose reaction
\* is not one of milky_way, fire, star and wastebasket, that has no
\* channel or no timestamp, or whose message names no transient leaves the
\* vote table and the classification table as they were.
C30_OtherEventsChangeNothing ==
    [][(\/ lastEvent'.reaction \notin Symbols
        \/ lastEvent'.channel = ""
        \/ lastEvent'.ts = ""
        \/ lastEvent'.message = "New transient detected: J0101_1")
          => UNCHANGED <<votesExists, votesRows, classExists, classRows>>]_vars

\* A vote on the monitor's own announcement, whose text names no
\* transient, has been handled while both tables hold a counted vote.
C30_Witness ==
    /\ lastEvent.reaction = "fire"
    /\ lastEvent.channel # "" /\ lastEvent.ts # ""
    /\ lastEvent.message = "New transient detected: J0101_1"
    /\ lastEvent.outcome = "no_transient"
    /\ Len(votesRows) = 2
    /\ votesRows[1].interesting_votes = 1
    /\ Len(classRows) = 2

====
